---- MODULE Spec2Model ----
(***************************************************************************)
(* A model of the rundown scheduling engine and the time utilities of      *)
(* news_aggregator.py (NewsAggregatorApp and PullStoriesWorker).           *)
(*                                                                         *)
(* Texts that the program parses or formats (duration, backtime, feed      *)
(* name) are sequences of one-character strings, so that split(), int(),   *)
(* strptime(), strftime(), lower() and the `in` substring test are         *)
(* computed character by character.  Texts the program only stores and     *)
(* compares (title, link, id, profile) are plain strings.                  *)
(*                                                                         *)
(* Instants are whole seconds counted from midnight of day 0; a datetime   *)
(* is such a number, its time of day is the number modulo 86400.           *)
(***************************************************************************)
EXTENDS Integers, Sequences, FiniteSets, TLC

VARIABLES
    rundown_tree,              \* the rows of the rundown QTreeWidget, in order
    current_item,              \* index of rundown_tree.currentItem(), 0 = none
    rundown_clock_label,       \* the text of the headline / countdown label
    recalculating_backtimes,   \* self._recalculating_backtimes
    now,                       \* datetime.now(), in seconds
    ops,                       \* number of handlers run so far (bounded)
    last,                      \* what the last handler was and what it did
    fn, arg, res,              \* a call of a pure function: name, input, result
    frame,                     \* calculate_backtimes step by step: where the
                               \* execution stands, and its local variables
    pull,                      \* the pull of the stories: the pull button, the
                               \* worker's fields and locals, where run stands
    rundown_file               \* the rundown file Save Rundown has written

vars == <<rundown_tree, current_item, rundown_clock_label,
          recalculating_backtimes, now, ops, last, fn, arg, res, frame,
          pull, rundown_file>>

appVars == <<rundown_tree, current_item, rundown_clock_label,
             recalculating_backtimes, now, ops, last>>

pureVars == <<fn, arg, res>>

stepVars == <<frame>>

pullVars == <<pull>>

fileVars == <<rundown_file>>

-----------------------------------------------------------------------------
(* Characters and texts *)

Digits == <<"0", "1", "2", "3", "4", "5", "6", "7", "8", "9">>

IsDigit(c) == \E i \in 1..10 : Digits[i] = c

DigitVal(c) == (CHOOSE i \in 1..10 : Digits[i] = c) - 1

IsSpace(c) == c \in {" ", "\t", "\n"}

Upper == <<"A", "B", "C", "D", "E", "F", "G", "H", "I", "J", "K", "L", "M",
           "N", "O", "P", "Q", "R", "S", "T", "U", "V", "W", "X", "Y", "Z">>

Lower == <<"a", "b", "c", "d", "e", "f", "g", "h", "i", "j", "k", "l", "m",
           "n", "o", "p", "q", "r", "s", "t", "u", "v", "w", "x", "y", "z">>

\* str.lower() of one character
LowerChar(c) ==
    IF \E i \in 1..26 : Upper[i] = c
    THEN Lower[CHOOSE i \in 1..26 : Upper[i] = c]
    ELSE c

\* str.lower()
LowerStr(s) == [i \in 1..Len(s) |-> LowerChar(s[i])]

\* needle in hay (substring test)
Contains(hay, needle) ==
    \E k \in 0..(Len(hay) - Len(needle)) :
        \A i \in 1..Len(needle) : hay[k + i] = needle[i]

\* str.strip()
RECURSIVE LStrip(_)
LStrip(s) == IF s # <<>> /\ IsSpace(Head(s)) THEN LStrip(Tail(s)) ELSE s

RECURSIVE RStrip(_)
RStrip(s) ==
    IF s # <<>> /\ IsSpace(s[Len(s)]) THEN RStrip(SubSeq(s, 1, Len(s) - 1)) ELSE s

Strip(s) == LStrip(RStrip(s))

\* str.split(sep) for a one-character separator: always at least one token
RECURSIVE SplitFrom(_, _, _)
SplitFrom(s, sep, cur) ==
    IF s = <<>> THEN <<cur>>
    ELSE IF Head(s) = sep THEN <<cur>> \o SplitFrom(Tail(s), sep, <<>>)
    ELSE SplitFrom(Tail(s), sep, Append(cur, Head(s)))

Split(s, sep) == SplitFrom(s, sep, <<>>)

\* the value of a non-empty run of decimal digits
RECURSIVE DigitsVal(_)
DigitsVal(s) ==
    IF s = <<>> THEN 0
    ELSE 10 * DigitsVal(SubSeq(s, 1, Len(s) - 1)) + DigitVal(s[Len(s)])

AllDigits(s) == s # <<>> /\ \A i \in 1..Len(s) : IsDigit(s[i])

\* the digits of a stripped token after its sign, if it has one
Unsigned(t) == IF t # <<>> /\ Head(t) \in {"+", "-"} THEN Tail(t) ELSE t

\* int(token): surrounding whitespace is ignored, one sign is allowed, the
\* rest must be decimal digits; anything else raises ValueError.
IntOk(tok) == AllDigits(Unsigned(Strip(tok)))

Signed(t, n) == IF t # <<>> /\ Head(t) = "-" THEN 0 - n ELSE n

IntVal(tok) == Signed(Strip(tok), DigitsVal(Unsigned(Strip(tok))))

\* two-digit zero-padded decimal, as %I %M %S print it
Pad2(n) == <<Digits[(n \div 10) + 1], Digits[(n % 10) + 1]>>

-----------------------------------------------------------------------------
(* Outcomes of the parsers *)

None == [tag |-> "None", v |-> 0]
Raised == [tag |-> "ValueError", v |-> 0]
Seconds(n) == [tag |-> "int", v |-> n]

\* the body of the try block of parse_duration_string, on the list `parts`
DurationOfParts(parts) ==
    IF Len(parts) = 2
    THEN IF 0 <= parts[2] /\ parts[2] < 60
         THEN Seconds(parts[1] * 60 + parts[2])
         ELSE None
    ELSE IF Len(parts) = 3
    THEN IF 0 <= parts[2] /\ parts[2] < 60 /\ 0 <= parts[3] /\ parts[3] < 60
         THEN Seconds(parts[1] * 3600 + parts[2] * 60 + parts[3])
         ELSE None
    ELSE None

\* parts = list(map(int, tokens)), which stands before the try block: a
\* token int() rejects raises ValueError out of the function.
DurationOfTokens(toks) ==
    IF \E i \in 1..Len(toks) : ~IntOk(toks[i]) THEN Raised
    ELSE DurationOfParts([i \in 1..Len(toks) |-> IntVal(toks[i])])

\* NewsAggregatorApp.parse_duration_string (the argument is always a str)
parse_duration_string(duration_str) == DurationOfTokens(Split(duration_str, ":"))

Time(h, m, s) == [tag |-> "time", v |-> h * 3600 + m * 60 + s]

\* A strptime field: one or two decimal digits whose value lies in lo..hi
\* (%I: 1..12, %H: 0..23, %M: 0..59; %S matches 0..61 but datetime.time
\* accepts 0..59 only, and the ValueError it raises skips the format too).
InRange(n, lo, hi) == lo <= n /\ n <= hi

FieldOk(tok, lo, hi) ==
    AllDigits(tok) /\ Len(tok) <= 2 /\ InRange(DigitsVal(tok), lo, hi)

\* the hour of the day of a 12-hour clock hour and a lowercased AM/PM
Hour24(h12, ap) ==
    IF ap = <<"p", "m">>
    THEN (IF h12 = 12 THEN 12 ELSE h12 + 12)
    ELSE (IF h12 = 12 THEN 0 ELSE h12)

\* the fields f of "%I:%M:%S %p" (n = 3) or "%I:%M %p" (n = 2), given that
\* white space came before the AM/PM text ap
Fields12(f, n, ap, spaced) ==
    IF /\ ap \in {<<"a", "m">>, <<"p", "m">>}
       /\ spaced
       /\ Len(f) = n
       /\ FieldOk(f[1], 1, 12)
       /\ FieldOk(f[2], 0, 59)
       /\ (n = 3 => FieldOk(f[3], 0, 59))
    THEN Time(Hour24(DigitsVal(f[1]), ap), DigitsVal(f[2]),
              IF n = 3 THEN DigitsVal(f[3]) ELSE 0)
    ELSE None

\* datetime.strptime(s, "%I:%M:%S %p") (withSeconds) or "%I:%M %p": the
\* whole text must match; the blank of the format matches one or more
\* whitespace characters and %p matches AM or PM in either case.
Strptime12(s, withSeconds) ==
    IF Len(s) < 3 THEN None
    ELSE Fields12(Split(RStrip(SubSeq(s, 1, Len(s) - 2)), ":"),
                  IF withSeconds THEN 3 ELSE 2,
                  LowerStr(SubSeq(s, Len(s) - 1, Len(s))),
                  IsSpace(s[Len(s) - 2]))

\* A variant of the 24-hour formats that takes any two-digit hour.
Fields24_anyHour(f, n) ==
    IF /\ Len(f) = n
       /\ FieldOk(f[1], 0, 99)
       /\ FieldOk(f[2], 0, 59)
       /\ (n = 3 => FieldOk(f[3], 0, 59))
    THEN Time(DigitsVal(f[1]), DigitsVal(f[2]),
              IF n = 3 THEN DigitsVal(f[3]) ELSE 0)
    ELSE None

\* the fields f of "%H:%M:%S" (n = 3) or "%H:%M" (n = 2)
Fields24(f, n) ==
    IF /\ Len(f) = n
       /\ FieldOk(f[1], 0, 23)
       /\ FieldOk(f[2], 0, 59)
       /\ (n = 3 => FieldOk(f[3], 0, 59))
    THEN Time(DigitsVal(f[1]), DigitsVal(f[2]),
              IF n = 3 THEN DigitsVal(f[3]) ELSE 0)
    ELSE None

\* datetime.strptime(s, "%H:%M:%S") (withSeconds) or "%H:%M"
Strptime24(s, withSeconds) ==
    Fields24(Split(s, ":"), IF withSeconds THEN 3 ELSE 2)

\* the first of the four attempts that is a time, in the order of `formats`
FirstMatch(a, b, c, d) ==
    IF a # None THEN a
    ELSE IF b # None THEN b
    ELSE IF c # None THEN c
    ELSE d

TryFormats(s) ==
    FirstMatch(Strptime12(s, TRUE), Strptime12(s, FALSE),
               Strptime24(s, TRUE), Strptime24(s, FALSE))

\* NewsAggregatorApp.parse_backtime_string: None for an empty or blank text,
\* else the first of the four formats that matches the stripped text, else
\* None.  (A datetime.time is true whatever its value, so callers' tests
\* `if parsed_time:` are tests for None.)
ParseStripped(s) == IF s = <<>> THEN None ELSE TryFormats(s)

parse_backtime_string(bt_str) ==
    IF bt_str = <<>> THEN None ELSE ParseStripped(Strip(bt_str))

Day == 86400

\* the hour of %I and the AM/PM of %p for an instant t
Hour12(t) == (((t % Day) \div 3600 + 11) % 12) + 1

AmPm(t) == IF (t % Day) \div 3600 < 12 THEN <<"A", "M">> ELSE <<"P", "M">>

\* t.strftime("%I:%M %p"): the seconds are dropped
strftime_IMp(t) ==
    Pad2(Hour12(t)) \o <<":">> \o Pad2(((t % Day) \div 60) % 60)
        \o <<" ">> \o AmPm(t)

\* t.strftime("%I:%M:%S %p")
strftime_IMSp(t) ==
    Pad2(Hour12(t)) \o <<":">> \o Pad2(((t % Day) \div 60) % 60)
        \o <<":">> \o Pad2(t % 60) \o <<" ">> \o AmPm(t)

-----------------------------------------------------------------------------
(* Categorization of a feed by its name, PullStoriesWorker.run *)

kw_technology == <<"t", "e", "c", "h", "n", "o", "l", "o", "g", "y">>
kw_sports == <<"s", "p", "o", "r", "t", "s">>
kw_politics == <<"p", "o", "l", "i", "t", "i", "c", "s">>
kw_world == <<"w", "o", "r", "l", "d">>
kw_international ==
    <<"i", "n", "t", "e", "r", "n", "a", "t", "i", "o", "n", "a", "l">>
kw_business == <<"b", "u", "s", "i", "n", "e", "s", "s">>
kw_entertainment ==
    <<"e", "n", "t", "e", "r", "t", "a", "i", "n", "m", "e", "n", "t">>

\* a variant that looks for "business" before the other keywords
CategoryOf_businessFirst(n) ==
    IF Contains(n, kw_business) THEN "Business"
    ELSE IF Contains(n, kw_technology) THEN "Technology"
    ELSE IF Contains(n, kw_sports) THEN "Sports"
    ELSE IF Contains(n, kw_politics) THEN "Politics"
    ELSE IF Contains(n, kw_world) \/ Contains(n, kw_international)
         THEN "World News"
    ELSE IF Contains(n, kw_entertainment) THEN "Entertainment"
    ELSE "Other"

\* the chain of keyword tests on the name n
CategoryOf(n) ==
    IF Contains(n, kw_technology) THEN "Technology"
    ELSE IF Contains(n, kw_sports) THEN "Sports"
    ELSE IF Contains(n, kw_politics) THEN "Politics"
    ELSE IF Contains(n, kw_world) \/ Contains(n, kw_international)
         THEN "World News"
    ELSE IF Contains(n, kw_business) THEN "Business"
    ELSE IF Contains(n, kw_entertainment) THEN "Entertainment"
    ELSE "Other"

\* A variant that tests the name as written, without lower().
categorize_caseSensitive(feed_name) == CategoryOf(feed_name)

categorize(feed_name) == CategoryOf(LowerStr(feed_name))

-----------------------------------------------------------------------------
(* The order of the categories, NewsAggregatorApp.display_stories *)

\* the keys of category_order
c_All == <<"A", "l", "l">>
c_Technology == <<"T", "e", "c", "h", "n", "o", "l", "o", "g", "y">>
c_Sports == <<"S", "p", "o", "r", "t", "s">>
c_Politics == <<"P", "o", "l", "i", "t", "i", "c", "s">>
c_WorldNews == <<"W", "o", "r", "l", "d", " ", "N", "e", "w", "s">>
c_Business == <<"B", "u", "s", "i", "n", "e", "s", "s">>
c_Entertainment == <<"E", "n", "t", "e", "r", "t", "a", "i", "n", "m", "e", "n", "t">>
c_Other == <<"O", "t", "h", "e", "r">>

\* category_order.get(x, len(category_order))
category_order(x) ==
    IF x = c_All THEN 0
    ELSE IF x = c_Technology THEN 1
    ELSE IF x = c_Sports THEN 2
    ELSE IF x = c_Politics THEN 3
    ELSE IF x = c_WorldNews THEN 4
    ELSE IF x = c_Business THEN 5
    ELSE IF x = c_Entertainment THEN 6
    ELSE IF x = c_Other THEN 7
    ELSE 8

\* the characters of the names, in the order of their code points
CodePoints == <<" ">> \o Upper \o Lower

Ord(c) == CHOOSE i \in 1..Len(CodePoints) : CodePoints[i] = c

\* a < b for two str
RECURSIVE StrLess(_, _)
StrLess(a, b) ==
    IF b = <<>> THEN FALSE
    ELSE IF a = <<>> THEN TRUE
    ELSE IF Ord(Head(a)) # Ord(Head(b)) THEN Ord(Head(a)) < Ord(Head(b))
    ELSE StrLess(Tail(a), Tail(b))

\* A variant of the order of the keys without the name as second part.
KeyLess_rankOnly(a, b) == category_order(a) < category_order(b)

\* a < b for the sort keys (category_order.get(x, 8), x) of two names
KeyLess(a, b) ==
    \/ category_order(a) < category_order(b)
    \/ category_order(a) = category_order(b) /\ StrLess(a, b)

\* x put into the sorted list: behind every name whose key is not above x's
RECURSIVE InsertSorted(_, _)
InsertSorted(x, sorted) ==
    IF sorted = <<>> THEN <<x>>
    ELSE IF KeyLess(x, Head(sorted)) THEN <<x>> \o sorted
    ELSE <<Head(sorted)>> \o InsertSorted(x, Tail(sorted))

\* sorted(all_stories.keys(), key=...): the keys of the dict in the order
\* they were put in, sorted (the sort is stable)
RECURSIVE sorted_categories(_)
sorted_categories(keys) ==
    IF keys = <<>> THEN <<>>
    ELSE InsertSorted(keys[Len(keys)],
                      sorted_categories(SubSeq(keys, 1, Len(keys) - 1)))

-----------------------------------------------------------------------------
(* Texts used as inputs *)

t_empty == <<>>
t_0030 == <<"0", "0", ":", "3", "0">>
t_0100 == <<"0", "1", ":", "0", "0">>
t_0045 == <<"0", "0", ":", "4", "5">>
t_9999 == <<"9", "9", ":", "9", "9">>
t_5 == <<"5">>
t_abcd == <<"a", "b", ":", "c", "d">>
t_neg130 == <<"-", "1", ":", "3", "0">>
t_6pm_s == <<"6", ":", "0", "0", ":", "0", "0", " ", "P", "M">>
t_1800 == <<"1", "8", ":", "0", "0">>
t_notatime == <<"n", "o", "t", "-", "a", "-", "t", "i", "m", "e">>
t_blank == <<" ", " ">>

-----------------------------------------------------------------------------
(* Stories and segments *)

\* story_data["id"] = str(hash(link + title)), send_to_rundown.  The hash is
\* taken as injective, so two ids are equal exactly when the concatenations
\* are (a real hash can only add equalities).
story_id(link, title) == link \o title

Story(link, title) == [link |-> link, title |-> title, id |-> story_id(link, title)]

\* The checkable stories of the articles tree, in tree order.  The third has
\* the link of the first under another title; the fourth has another link
\* but the same link + title concatenation, hence the same id, as the first.
Articles ==
    << Story("u/1", "1 dead"), Story("u/2", "Rain"),
       Story("u/1", "One dead"), Story("u/11", " dead") >>

DefaultProfile == "Default Narrator"
\* the profiles a user picks in the menus and the drop-down
Profiles == {"Anchor"}

\* A record of the rundown, as send_to_rundown builds it or a file holds it
Segment(link, title, id, duration, backtime, active, order) ==
    [ id |-> id, link |-> link, title |-> title, duration |-> duration,
      backtime |-> backtime, profile |-> DefaultProfile, active |-> active,
      order |-> order, style |-> "Standard", tone |-> "Objective",
      length |-> "Standard" ]

\* One row of the tree as update_rundown_tree sets it from a record: the
\* texts of the columns, the check state, and the record under Qt.UserRole.
RowOf(story_data) ==
    [ title |-> story_data.title, duration |-> story_data.duration,
      backtime |-> story_data.backtime, profile |-> story_data.profile,
      active |-> story_data.active, data |-> story_data ]

\* update_rundown_tree: clear() and one row per record.  The itemChanged
\* signals of setText and setCheckState find no record under the row yet;
\* the one of setData(0, UserRole) rewrites the record's title with the
\* row's title, which was just set from it.
update_rundown_tree(rundown_data) ==
    [i \in 1..Len(rundown_data) |-> RowOf(rundown_data[i])]

\* get_rundown_items: each row's record, after the record's duration,
\* backtime, profile and active were overwritten with the row's.  The
\* records are updated in place: SyncRows is the tree after the call.
SyncRow(item) ==
    [item EXCEPT !.data.duration = item.duration,
                 !.data.backtime = item.backtime,
                 !.data.profile = item.profile,
                 !.data.active = item.active]

SyncRows(tree) == [i \in 1..Len(tree) |-> SyncRow(tree[i])]

get_rundown_items(tree) == [i \in 1..Len(tree) |-> SyncRow(tree[i]).data]

\* Rundown files a user can open with Load Rundown that were not written by
\* this run of the program.
ExternalFiles ==
    << \* three active segments, the show ends at 6:00:00 PM
       << Segment("f/1", "A", "f/1A", t_0030, t_empty, TRUE, 0),
          Segment("f/2", "B", "f/2B", t_0100, t_empty, TRUE, 1),
          Segment("f/3", "C", "f/3C", t_0045, t_6pm_s, TRUE, 2) >>,
       \* an inactive segment with a non-numeric duration and a backtime
       \* that is a clock time, a one-token duration, and a last backtime
       \* that is no clock time
       << Segment("f/1", "A", "f/1A", t_abcd, t_1800, FALSE, 0),
          Segment("f/2", "B", "f/2B", t_5, t_notatime, TRUE, 1) >>,
       \* two records with the same link, a negative minutes field
       << Segment("u/1", "1 dead", "x1", t_neg130, t_empty, TRUE, 0),
          Segment("u/1", "One dead", "x2", t_0030, t_1800, TRUE, 1) >>,
       \* an active segment with a non-numeric duration, and a backtime that
       \* is no clock time
       << Segment("f/4", "D", "f/4D", t_abcd, t_notatime, TRUE, 0) >> >>


-----------------------------------------------------------------------------
(* The backtime scheduler, NewsAggregatorApp.calculate_backtimes *)

\* What both passes get for each row: parse_duration_string of the duration
\* column when the row's record is active; an inactive row is not parsed
\* and counts 0 seconds.
ParsedDurations(tree) ==
    [i \in 1..Len(tree) |->
        IF tree[i].data.active THEN parse_duration_string(tree[i].duration)
        ELSE Seconds(0)]

\* The rows the first pass logs "Invalid duration format" for.
InvalidDurationRows(parsed) == {i \in DOMAIN parsed : parsed[i] = None}

\* duration_seconds of a row in the second pass: 0 when the duration parsed
\* to None.
duration_seconds(seconds) == IF seconds.tag = "int" THEN seconds.v ELSE 0

\* The text of the last row's backtime column, "" for an empty rundown.
last_item_backtime_str(tree) ==
    IF Len(tree) > 0 THEN tree[Len(tree)].backtime ELSE <<>>

\* a variant of the default that keeps the seconds of the clock
DefaultShowEnd_keepsSeconds(t) == t + 1800

\* now + timedelta(minutes=30) with second=0
DefaultShowEnd(t) == (t + 1800) - ((t + 1800) % 60)

\* a variant that takes the next day for any instant before t
OnDate_anyPast(today, t) == IF today < t THEN today + Day ELSE today

\* A time of day on the date of t, one day later when that is more than an
\* hour before t.
OnDate(today, t) == IF today < t /\ t - today > 3600 THEN today + Day ELSE today

RollForward(tod, t) == OnDate((t - (t % Day)) + tod, t)

\* show_end_time, from the last row's backtime text and what it parsed to
show_end_time(bt_str, parsed_time, t) ==
    IF bt_str # <<>> /\ parsed_time # None THEN RollForward(parsed_time.v, t)
    ELSE DefaultShowEnd(t)

\* "Invalid backtime format for last item" is logged.
InvalidBacktimeLogged(bt_str, parsed_time) == bt_str # <<>> /\ parsed_time = None

\* A variant of the second pass that writes the clock to the row before
\* moving it back by the row's duration (each row would show its end).
RECURSIVE SecondPass_writesEnd(_, _, _, _)
SecondPass_writesEnd(tree, parsed, i, current_time) ==
    IF i = 0 THEN [tree |-> tree, current_time |-> current_time]
    ELSE SecondPass_writesEnd(
             [tree EXCEPT ![i].backtime = strftime_IMp(current_time)],
             parsed, i - 1, current_time - duration_seconds(parsed[i]))

\* The second pass over rows i, i-1, ..., 1 with the running clock at
\* current_time: the clock is moved back by the row's duration and written
\* to the row's backtime column.  The itemChanged signal of that setText
\* reaches handle_rundown_item_changed with column 3, which does nothing.
RECURSIVE SecondPass(_, _, _, _)
SecondPass(tree, parsed, i, current_time) ==
    IF i = 0 THEN [tree |-> tree, current_time |-> current_time]
    ELSE SecondPass(
             [tree EXCEPT ![i].backtime =
                 strftime_IMp(current_time - duration_seconds(parsed[i]))],
             parsed, i - 1, current_time - duration_seconds(parsed[i]))

DashesLabel == [kind |-> "dashes", text |-> <<>>]
BacktimeLabel(t) == [kind |-> "Backtime", text |-> strftime_IMSp(t)]

Dropped(tree, label) ==
    [tree |-> tree, label |-> label, outcome |-> "dropped", anchor |-> 0,
     warn_dur |-> {}, warn_bt |-> FALSE]

RaisedOut(tree, label) ==
    [tree |-> tree, label |-> label, outcome |-> "raised", anchor |-> 0,
     warn_dur |-> {}, warn_bt |-> FALSE]

Done(pass, anchor, warn_dur, warn_bt) ==
    [tree |-> pass.tree, label |-> BacktimeLabel(pass.current_time),
     outcome |-> "done", anchor |-> anchor, warn_dur |-> warn_dur,
     warn_bt |-> warn_bt]

\* the second pass from the show end, and the headline
FromShowEnd(tree, parsed, anchor, warn_bt) ==
    Done(SecondPass(tree, parsed, Len(tree), anchor), anchor,
         InvalidDurationRows(parsed), warn_bt)

\* The body of the try block: the first pass raises when
\* parse_duration_string does, and nothing has been written by then.
Passes(tree, label, t, parsed, bt_str, parsed_time) ==
    IF \E i \in DOMAIN parsed : parsed[i] = Raised THEN RaisedOut(tree, label)
    ELSE FromShowEnd(tree, parsed, show_end_time(bt_str, parsed_time, t),
                     InvalidBacktimeLogged(bt_str, parsed_time))

\* A variant of calculate_backtimes without the guard at its entry.
calculate_backtimes_unguarded(tree, label, busy, t) ==
    Passes(tree, label, t, ParsedDurations(tree),
           last_item_backtime_str(tree),
           parse_backtime_string(last_item_backtime_str(tree)))

\* calculate_backtimes on the rows `tree` at time t, entered with the guard
\* flag `busy`: the rows and the label after it, how it ended (dropped by
\* the guard, raised out of the first pass, or done), the show end it used,
\* and what it logged.  The flag is False again whenever it ends.
calculate_backtimes(tree, label, busy, t) ==
    IF busy THEN Dropped(tree, label)
    ELSE Passes(tree, label, t, ParsedDurations(tree),
                last_item_backtime_str(tree),
                parse_backtime_string(last_item_backtime_str(tree)))

NoCalc == [outcome |-> "none", anchor |-> 0, warn_dur |-> {}, warn_bt |-> FALSE]

\* What a handler leaves in `last`: the handler, the row it was given (for
\* load the file, for send the set of checked stories), the direction of a
\* move, the rows and the label before it, new_items_added, the message it
\* ends with, and how the recompute it ran ended.
Did(op, idx, dir, pre, added, msg, c) ==
    [ op |-> op, idx |-> idx, dir |-> dir, pre |-> pre, added |-> added,
      msg |-> msg, calc |-> c.outcome, anchor |-> c.anchor,
      warn_dur |-> c.warn_dur, warn_bt |-> c.warn_bt ]


-----------------------------------------------------------------------------
(* Bounds and inputs *)

\* handlers run in one behaviour
MaxOps == 3

\* The program is started at 23:45:20 of day 1: the default show end, 30
\* minutes later, lies on the next day.
StartTimes == {Day + 23 * 3600 + 45 * 60 + 20}

\* seconds the wall clock can jump between two handlers
TickSteps == {1, 3700}

\* what a user types into the duration editor and the validator accepts
DurationEdits == {t_0100, t_9999}

\* QRegularExpressionValidator(r"^\d{1,2}:\d{2}$") of the duration editor
duration_validator(text) ==
    LET f == Split(text, ":")
    IN  /\ Len(f) = 2
        /\ AllDigits(f[1]) /\ Len(f[1]) <= 2
        /\ AllDigits(f[2]) /\ Len(f[2]) = 2

\* QTime.toString("h:mm AP"): the hour without a leading zero
QTime_toString(h, m) ==
    (IF Hour12(h * 3600) >= 10 THEN Pad2(Hour12(h * 3600))
     ELSE <<Digits[Hour12(h * 3600) + 1]>>)
        \o <<":">> \o Pad2(m) \o <<" ">> \o AmPm(h * 3600)

\* the times a user sets in the backtime editor (a QTimeEdit)
BacktimeEdits == {<<18, 0>>}

NewTitles == {"Edited"}

\* what a user picks in the Style, Tone and Length menus of a row
RewriteOptions ==
    {<<"style", "Conversational">>, <<"tone", "Humorous">>,
     <<"length", "Concise">>}

\* The sets of stories a user checks before Send to Rundown: one story,
\* another one, a story and one with its link, two stories and one with
\* the id of the first, and two stories that have the link and the id of
\* the first.
Selections == {{1}, {2}, {1, 3}, {1, 2, 4}, {3, 4}}

-----------------------------------------------------------------------------
(* The state after construction *)

NoOp == Did("init", 0, 0, [tree |-> <<>>, label |-> DashesLabel], 0, "", NoCalc)

PureIdle == fn = "none" /\ arg = <<>> /\ res = None

\* no execution of calculate_backtimes: pc is where the code stands, i and
\* current_time are the locals of the second pass, running counts the
\* executions that have passed the guard and not ended, calls counts the
\* calls made, pre is what the last call found, outcome how it ended
NoFrame ==
    [ pc |-> "idle", i |-> 0, current_time |-> 0, running |-> 0, calls |-> 0,
      pre |-> [tree |-> <<>>, label |-> DashesLabel], outcome |-> "none" ]

\* no rundown file has been written; data is the list json.dump wrote
NoFile == [written |-> FALSE, data |-> <<>>]

\* the Categories of a result: the names run gives to a story
Categories ==
    {"Technology", "Sports", "Politics", "World News", "Business",
     "Entertainment", "Other"}

\* the value of story_limit_slider after construction
DefaultStoryLimit == 10

\* no pull of stories: the button reads "Pull Stories", no worker exists.
\* pc is where run stands, k the index of feed_info in feeds, n the number of
\* entries of the parsed feed and i the index of the entry; got is what the
\* server answered for each feed, started and ended are the feeds whose
\* request has been sent and whose handling is over, emitted the values
\* stories_ready has carried, shown the value display_stories has received.
NoPull ==
    [ pc |-> "idle", button |-> "Pull Stories", feeds |-> <<>>,
      story_limit |-> DefaultStoryLimit, k |-> 0, i |-> 0, n |-> 0,
      all_stories |-> [c \in Categories |-> <<>>], log |-> <<>>,
      got |-> <<>>, started |-> {}, ended |-> {}, emitted |-> <<>>,
      shown |-> <<>> ]

Init ==
    /\ rundown_tree = <<>>
    /\ current_item = 0
    /\ rundown_clock_label = DashesLabel
    /\ recalculating_backtimes = FALSE
    /\ now \in StartTimes
    /\ ops = 0
    /\ last = NoOp
    /\ PureIdle
    /\ frame = NoFrame
    /\ pull = NoPull
    /\ rundown_file = NoFile

Pre == [tree |-> rundown_tree, label |-> rundown_clock_label]

\* the state a recompute that ended as c leaves
Recomputed(op, idx, dir, added, msg, c) ==
    /\ rundown_tree' = c.tree
    /\ rundown_clock_label' = c.label
    /\ recalculating_backtimes' = FALSE
    /\ last' = Did(op, idx, dir, Pre, added,
                   IF c.outcome = "raised" THEN "ValueError" ELSE msg, c)

\* A handler that ends by running calculate_backtimes on the rows `tree`
EndWithRecompute(op, idx, dir, tree, added, msg) ==
    Recomputed(op, idx, dir, added, msg,
               calculate_backtimes(tree, rundown_clock_label,
                                   recalculating_backtimes, now))

\* A handler that runs no recompute and leaves the rows `tree`
EndWithout(op, idx, dir, tree, msg) ==
    /\ rundown_tree' = tree
    /\ last' = Did(op, idx, dir, Pre, 0, msg, NoCalc)
    /\ UNCHANGED <<rundown_clock_label, recalculating_backtimes>>

Step ==
    /\ ops < MaxOps
    /\ ops' = ops + 1
    /\ UNCHANGED <<now, pureVars, stepVars, pullVars, fileVars>>

-----------------------------------------------------------------------------
(* send_to_rundown *)

\* A variant of the loop that looks for the story's link only, not its id.
RECURSIVE AppendSelected_linkOnly(_, _, _)
AppendSelected_linkOnly(items, selected, added) ==
    IF selected = <<>> THEN [items |-> items, added |-> added]
    ELSE IF \E k \in 1..Len(items) : items[k].link = Head(selected).link
    THEN AppendSelected_linkOnly(items, Tail(selected), added)
    ELSE AppendSelected_linkOnly(
             Append(items,
                    Segment(Head(selected).link, Head(selected).title,
                            Head(selected).id, t_0030, t_empty, TRUE,
                            Len(items) + added)),
             Tail(selected), added + 1)

\* The loop over the selected stories: `items` is current_rundown_items,
\* which grows as stories are accepted, and `added` is new_items_added.
RECURSIVE AppendSelected(_, _, _)
AppendSelected(items, selected, added) ==
    IF selected = <<>> THEN [items |-> items, added |-> added]
    ELSE LET story == Head(selected)
             exists == \E k \in 1..Len(items) :
                          \/ items[k].link = story.link
                          \/ items[k].id = story.id
         IN  IF exists THEN AppendSelected(items, Tail(selected), added)
             ELSE AppendSelected(
                      Append(items,
                             Segment(story.link, story.title, story.id, t_0030,
                                     t_empty, TRUE, Len(items) + added)),
                      Tail(selected), added + 1)

\* the checked stories, in the order of the articles tree
RECURSIVE SelectedStories(_, _)
SelectedStories(checked, k) ==
    IF k > Len(Articles) THEN <<>>
    ELSE (IF k \in checked THEN <<Articles[k]>> ELSE <<>>)
             \o SelectedStories(checked, k + 1)

\* setCurrentWidget(rundown_tab) at the end of a send that added something:
\* the button is on the Articles tab, so the current tab changes and
\* on_tab_changed runs calculate_backtimes once more, on what the first
\* recompute left.  A ValueError of the first one ends the handler before.
ShowRundownTab(c) ==
    IF c.outcome = "raised" THEN c
    ELSE calculate_backtimes(c.tree, c.label, FALSE, now)

\* what follows the loop
AfterLoop(checked, loop) ==
    IF loop.added > 0
    THEN /\ Recomputed("send", checked, 0, loop.added, "Sent to Rundown",
                       ShowRundownTab(
                           calculate_backtimes(update_rundown_tree(loop.items),
                                               rundown_clock_label,
                                               recalculating_backtimes, now)))
         /\ current_item' = 0
    ELSE /\ EndWithout("send", checked, 0, SyncRows(rundown_tree),
                       "No New Articles")
         /\ UNCHANGED current_item

send_to_rundown(checked) ==
    /\ Step
    /\ checked # {}
    /\ AfterLoop(checked,
                 AppendSelected(get_rundown_items(rundown_tree),
                                SelectedStories(checked, 1), 0))

-----------------------------------------------------------------------------
(* new_rundown, load_rundown *)

new_rundown ==
    /\ Step
    /\ EndWithRecompute("new", 0, 0, update_rundown_tree(<<>>), 0, "")
    /\ current_item' = 0

\* The ValueError of a recompute is caught here and shown as "Could not
\* load rundown"; the rows are those of the file by then.
load_rundown(f) ==
    /\ Step
    /\ EndWithRecompute("load", f, 0, update_rundown_tree(ExternalFiles[f]), 0, "")
    /\ current_item' = 0

-----------------------------------------------------------------------------
(* Edits of one row, handle_rundown_item_changed *)

\* column 2: the editor's text passes the validator and differs from the
\* row's; the record's duration follows and the backtimes are recomputed.
EditDuration(i, text) ==
    /\ Step
    /\ duration_validator(text)
    /\ text # rundown_tree[i].duration
    /\ EndWithRecompute("duration", i, 0,
           [rundown_tree EXCEPT ![i].duration = text, ![i].data.duration = text],
           0, "")
    /\ UNCHANGED current_item

\* column 5: the check box is clicked
ToggleActive(i) ==
    /\ Step
    /\ EndWithRecompute("active", i, 0,
           [rundown_tree EXCEPT ![i].active = ~rundown_tree[i].active,
                                ![i].data.active = ~rundown_tree[i].active],
           0, "")
    /\ UNCHANGED current_item

\* column 3: the time editor writes its time; the handler has no branch for
\* the column, so neither the record nor any other row changes.
EditBacktime(i, hm) ==
    /\ Step
    /\ QTime_toString(hm[1], hm[2]) # rundown_tree[i].backtime
    /\ EndWithout("backtime", i, 0,
           [rundown_tree EXCEPT ![i].backtime = QTime_toString(hm[1], hm[2])], "")
    /\ UNCHANGED current_item

\* a variant of the title edit that ends with a recompute
EditTitle_andRecompute(i, text) ==
    /\ Step
    /\ text # rundown_tree[i].title
    /\ EndWithRecompute("title", i, 0,
           [rundown_tree EXCEPT ![i].title = text, ![i].data.title = text],
           0, "")
    /\ UNCHANGED current_item

\* column 0
EditTitle(i, text) ==
    /\ Step
    /\ text # rundown_tree[i].title
    /\ EndWithout("title", i, 0,
           [rundown_tree EXCEPT ![i].title = text, ![i].data.title = text], "")
    /\ UNCHANGED current_item

\* column 4, edited in the row
EditCharacter(i, profile) ==
    /\ Step
    /\ profile # rundown_tree[i].profile
    /\ EndWithout("character", i, 0,
           [rundown_tree EXCEPT ![i].profile = profile,
                                ![i].data.profile = profile], "")
    /\ UNCHANGED current_item

\* set_item_profile (context menu): the record, then the row, whose
\* itemChanged signal writes the same profile to the record again.
set_item_profile(i, profile) ==
    /\ Step
    /\ EndWithout("set_item_profile", i, 0,
           [rundown_tree EXCEPT ![i].profile = profile,
                                ![i].data.profile = profile], "")
    /\ UNCHANGED current_item

\* set_item_rewrite_option (context menu): the record's style, tone or
\* length; no column of the row shows it
set_item_rewrite_option(i, option_type, option_name) ==
    /\ Step
    /\ EndWithout("set_item_rewrite_option", i, 0,
           [rundown_tree EXCEPT ![i].data[option_type] = option_name], "")
    /\ UNCHANGED current_item

\* on_character_changed (the drop-down): only the current row's record
on_character_changed(profile) ==
    /\ Step
    /\ current_item # 0
    /\ EndWithout("on_character_changed", current_item, 0,
           [rundown_tree EXCEPT ![current_item].data.profile = profile], "")
    /\ UNCHANGED current_item

\* a click on a row makes it the current item
SelectItem(i) ==
    /\ Step
    /\ current_item # i
    /\ current_item' = i
    /\ EndWithout("select", i, 0, rundown_tree, "")


-----------------------------------------------------------------------------
(* move_rundown_item, delete_rundown_item, on_tab_changed *)

\* the sequence s without its i-th element
RemoveAt(s, i) == SubSeq(s, 1, i - 1) \o SubSeq(s, i + 1, Len(s))

\* the sequence s with e inserted so that it becomes the i-th element
InsertAt(s, i, e) == SubSeq(s, 1, i - 1) \o <<e>> \o SubSeq(s, i, Len(s))

\* A variant of the move that gives the new row the default duration.
MovedRows_defaultDuration(tree, current_row, new_row) ==
    InsertAt(RemoveAt(tree, current_row), new_row,
             RowOf([tree[current_row].data EXCEPT !.duration = t_0030]))

\* The row taken out at current_row is replaced by a new row whose columns
\* are set from the record (item_data), inserted at new_row.
MovedRows(tree, current_row, new_row) ==
    InsertAt(RemoveAt(tree, current_row), new_row, RowOf(tree[current_row].data))

\* A variant of the move that recomputes the backtimes whether or not the
\* new row is in bounds.
MoveTo_alwaysRecomputes(i, direction, new_row) ==
    IF 1 <= new_row /\ new_row <= Len(rundown_tree)
    THEN /\ EndWithRecompute("move", i, direction,
                             MovedRows(rundown_tree, i, new_row), 0, "")
         /\ current_item' = new_row
    ELSE /\ EndWithRecompute("move", i, direction, rundown_tree, 0, "")
         /\ UNCHANGED current_item

MoveTo(i, direction, new_row) ==
    IF 1 <= new_row /\ new_row <= Len(rundown_tree)
    THEN /\ EndWithRecompute("move", i, direction,
                             MovedRows(rundown_tree, i, new_row), 0, "")
         /\ current_item' = new_row
    ELSE /\ EndWithout("move", i, direction, rundown_tree, "")
         /\ UNCHANGED current_item

move_rundown_item(i, direction) == Step /\ MoveTo(i, direction, i + direction)

\* The current item after row i is removed: Qt keeps the current item when
\* it is another row, and otherwise makes the row that followed the removed
\* one current, or the one before it when none followed.
CurrentAfterRemove(current, i, n) ==
    IF current = 0 THEN 0
    ELSE IF current < i THEN current
    ELSE IF current > i THEN current - 1
    ELSE IF i < n THEN i
    ELSE i - 1

delete_rundown_item(i) ==
    /\ Step
    /\ EndWithRecompute("delete", i, 0, RemoveAt(rundown_tree, i), 0, "")
    /\ current_item' = CurrentAfterRemove(current_item, i, Len(rundown_tree))

\* the rundown tab is shown
on_tab_changed ==
    /\ Step
    /\ EndWithRecompute("tab", 0, 0, rundown_tree, 0, "")
    /\ UNCHANGED current_item

-----------------------------------------------------------------------------
(* The wall clock and the countdown, update_backtime_clock *)

Tick(d) ==
    /\ ops < MaxOps
    /\ ops' = ops + 1
    /\ now' = now + d
    /\ last' = Did("tick", 0, 0, Pre, 0, "", NoCalc)
    /\ UNCHANGED <<rundown_tree, current_item, rundown_clock_label,
                   recalculating_backtimes, pureVars, stepVars, pullVars,
                   fileVars>>

CountdownLabel(total_seconds) ==
    [kind |-> "Show Starts In",
     text |-> Pad2(total_seconds \div 3600) \o <<":">>
                  \o Pad2((total_seconds % 3600) \div 60) \o <<":">>
                  \o Pad2(total_seconds % 60)]

ShowOverLabel == [kind |-> "Show Over", text |-> <<>>]

Remaining(total_seconds) ==
    IF total_seconds < 0 THEN ShowOverLabel ELSE CountdownLabel(total_seconds)

\* a variant that never takes the time of the next day
CountdownTo_sameDay(parsed_time, t) ==
    IF parsed_time # None
    THEN Remaining(((t - (t % Day)) + parsed_time.v) - t)
    ELSE DashesLabel

CountdownTo(parsed_time, t) ==
    IF parsed_time # None THEN Remaining(RollForward(parsed_time.v, t) - t)
    ELSE DashesLabel

\* the label update_backtime_clock sets at time t
countdown_text(tree, t) ==
    IF Len(tree) > 0 THEN CountdownTo(parse_backtime_string(tree[1].backtime), t)
    ELSE DashesLabel

\* a variant that also stores the countdown in the first row
update_backtime_clock_storesCountdown ==
    /\ Step
    /\ rundown_clock_label' = countdown_text(rundown_tree, now)
    /\ rundown_tree' =
           IF Len(rundown_tree) > 0
           THEN [rundown_tree EXCEPT
                    ![1].backtime = countdown_text(rundown_tree, now).text]
           ELSE rundown_tree
    /\ last' = Did("clock", 0, 0, Pre, 0, "", NoCalc)
    /\ UNCHANGED <<current_item, recalculating_backtimes>>

update_backtime_clock ==
    /\ Step
    /\ rundown_clock_label' = countdown_text(rundown_tree, now)
    /\ last' = Did("clock", 0, 0, Pre, 0, "", NoCalc)
    /\ UNCHANGED <<rundown_tree, current_item, recalculating_backtimes>>

-----------------------------------------------------------------------------
(* The program *)

Rows == 1..Len(rundown_tree)

Next ==
    \/ \E checked \in Selections : send_to_rundown(checked)
    \/ new_rundown
    \/ \E f \in 1..Len(ExternalFiles) : load_rundown(f)
    \/ \E i \in Rows, text \in DurationEdits : EditDuration(i, text)
    \/ \E i \in Rows : ToggleActive(i)
    \/ \E i \in Rows, hm \in BacktimeEdits : EditBacktime(i, hm)
    \/ \E i \in Rows, text \in NewTitles : EditTitle(i, text)
    \/ \E i \in Rows, profile \in Profiles : EditCharacter(i, profile)
    \/ \E i \in Rows, profile \in Profiles : set_item_profile(i, profile)
    \/ \E i \in Rows, o \in RewriteOptions :
          set_item_rewrite_option(i, o[1], o[2])
    \/ \E profile \in Profiles : on_character_changed(profile)
    \/ \E i \in Rows : SelectItem(i)
    \/ \E i \in Rows, direction \in {-1, 1} : move_rundown_item(i, direction)
    \/ \E i \in Rows : delete_rundown_item(i)
    \/ on_tab_changed
    \/ \E d \in TickSteps : Tick(d)
    \/ update_backtime_clock

Spec == Init /\ [][Next]_vars


-----------------------------------------------------------------------------
(* save_rundown, and load_rundown of the file it wrote *)

\* _save_rundown_to_file: get_rundown_items copies each row's duration,
\* backtime, profile and check state into its record, and json.dump writes
\* the records to the file.
save_rundown ==
    /\ ops < MaxOps
    /\ ops' = ops + 1
    /\ rundown_file' = [written |-> TRUE,
                        data |-> get_rundown_items(rundown_tree)]
    /\ EndWithout("save", 0, 0, SyncRows(rundown_tree), "Rundown saved")
    /\ UNCHANGED <<current_item, now, pureVars, stepVars, pullVars>>

\* load_rundown of the file that was saved: json.load gives the records
\* back, update_rundown_tree makes the rows, calculate_backtimes follows
load_saved ==
    /\ Step
    /\ rundown_file.written
    /\ EndWithRecompute("load_saved", 0, 0,
                        update_rundown_tree(rundown_file.data), 0, "")
    /\ current_item' = 0

\* Rundowns are built, edited, saved and loaded.
FileNext ==
    \/ \E checked \in Selections : send_to_rundown(checked)
    \/ \E f \in 1..Len(ExternalFiles) : load_rundown(f)
    \/ \E i \in Rows : ToggleActive(i)
    \/ \E i \in Rows, hm \in BacktimeEdits : EditBacktime(i, hm)
    \/ \E i \in Rows, profile \in Profiles : set_item_profile(i, profile)
    \/ save_rundown
    \/ load_saved

FileSpec == Init /\ [][FileNext]_vars

-----------------------------------------------------------------------------
(* calculate_backtimes, one statement at a time *)

\* the rows with the check box of the first one checked
FirstChecked(tree) ==
    [tree EXCEPT ![1].active = TRUE, ![1].data.active = TRUE]

\* Rows the program has when a handler calls calculate_backtimes: after New
\* Rundown, after Load Rundown of each of the first three files, after the
\* first row of the second file was checked, and after three stories were
\* sent.
StartTrees ==
    { <<>>,
      update_rundown_tree(ExternalFiles[1]),
      update_rundown_tree(ExternalFiles[2]),
      update_rundown_tree(ExternalFiles[3]),
      FirstChecked(update_rundown_tree(ExternalFiles[2])),
      update_rundown_tree(
          AppendSelected(<<>>, SelectedStories({1, 2, 4}, 1), 0).items) }

\* calls of calculate_backtimes in one behaviour
MaxCalls == 3

StepInit ==
    /\ rundown_tree \in StartTrees
    /\ current_item = 0
    /\ rundown_clock_label = DashesLabel
    /\ recalculating_backtimes = FALSE
    /\ now \in StartTimes
    /\ ops = 0
    /\ last = NoOp
    /\ PureIdle
    /\ frame = NoFrame
    /\ pull = NoPull
    /\ rundown_file = NoFile

StepFrame ==
    UNCHANGED <<current_item, now, ops, last, pureVars, pullVars, fileVars>>

\* A handler calls calculate_backtimes: the guard returns when the flag is
\* set, and sets it otherwise.
calc_guard ==
    /\ frame.pc = "idle"
    /\ frame.calls < MaxCalls
    /\ IF recalculating_backtimes
       THEN /\ frame' = [frame EXCEPT !.calls = @ + 1, !.pre = Pre,
                                      !.outcome = "dropped"]
            /\ UNCHANGED recalculating_backtimes
       ELSE /\ frame' = [frame EXCEPT !.pc = "first_pass", !.calls = @ + 1,
                                      !.running = @ + 1, !.pre = Pre,
                                      !.outcome = "none"]
            /\ recalculating_backtimes' = TRUE
    /\ UNCHANGED <<rundown_tree, rundown_clock_label>>
    /\ StepFrame

\* The first pass: a ValueError of parse_duration_string leaves the try
\* block for the finally clause.
calc_first_pass ==
    /\ frame.pc = "first_pass"
    /\ frame' = IF \E i \in 1..Len(rundown_tree) :
                      ParsedDurations(rundown_tree)[i] = Raised
                THEN [frame EXCEPT !.pc = "finally", !.outcome = "raised"]
                ELSE [frame EXCEPT !.pc = "show_end"]
    /\ UNCHANGED <<rundown_tree, rundown_clock_label, recalculating_backtimes>>
    /\ StepFrame

\* show_end_time is found and current_time starts from it
calc_show_end ==
    /\ frame.pc = "show_end"
    /\ frame' = [frame EXCEPT
                    !.pc = "second_pass",
                    !.i = Len(rundown_tree),
                    !.current_time =
                        show_end_time(
                            last_item_backtime_str(rundown_tree),
                            parse_backtime_string(
                                last_item_backtime_str(rundown_tree)),
                            now)]
    /\ UNCHANGED <<rundown_tree, rundown_clock_label, recalculating_backtimes>>
    /\ StepFrame

\* the text setText(3, ...) writes to row i when the clock stands at t
BacktimeOfRow(tree, i, t) ==
    strftime_IMp(t - duration_seconds(ParsedDurations(tree)[i]))

\* One round of the second pass: row i gets its backtime.  When the text
\* differs from the one the row had, the tree emits itemChanged for the row
\* and column 3, and handle_rundown_item_changed runs before setText
\* returns.
calc_setText ==
    /\ frame.pc = "second_pass"
    /\ frame.i >= 1
    /\ rundown_tree' =
           [rundown_tree EXCEPT ![frame.i].backtime =
               BacktimeOfRow(rundown_tree, frame.i, frame.current_time)]
    /\ frame' = [frame EXCEPT
                    !.pc = IF rundown_tree[frame.i].backtime
                                # BacktimeOfRow(rundown_tree, frame.i,
                                                frame.current_time)
                           THEN "item_changed" ELSE "second_pass",
                    !.i = @ - 1,
                    !.current_time =
                        @ - duration_seconds(
                                ParsedDurations(rundown_tree)[frame.i])]
    /\ UNCHANGED <<rundown_clock_label, recalculating_backtimes>>
    /\ StepFrame

\* handle_rundown_item_changed for column 3, called from within setText:
\* the handler has a branch for the columns 2, 4, 5 and 0 and none for 3,
\* so it calls nothing and writes nothing.
handle_rundown_item_changed_3 ==
    /\ frame.pc = "item_changed"
    /\ frame' = [frame EXCEPT !.pc = "second_pass"]
    /\ UNCHANGED <<rundown_tree, rundown_clock_label, recalculating_backtimes>>
    /\ StepFrame

\* after the second pass the headline is set and the try block ends
calc_setLabel ==
    /\ frame.pc = "second_pass"
    /\ frame.i = 0
    /\ rundown_clock_label' = BacktimeLabel(frame.current_time)
    /\ frame' = [frame EXCEPT !.pc = "finally", !.outcome = "done"]
    /\ UNCHANGED <<rundown_tree, recalculating_backtimes>>
    /\ StepFrame

\* A variant of the end of calculate_backtimes without try/finally: the
\* flag is reset at the end of the body only.
calc_finally_afterBodyOnly ==
    /\ frame.pc = "finally"
    /\ recalculating_backtimes' =
           IF frame.outcome = "raised" THEN recalculating_backtimes ELSE FALSE
    /\ frame' = [frame EXCEPT !.pc = "idle", !.running = @ - 1]
    /\ UNCHANGED <<rundown_tree, rundown_clock_label>>
    /\ StepFrame

\* the finally clause, reached from the end of the try block and from a
\* ValueError alike; the ValueError then leaves calculate_backtimes
calc_finally ==
    /\ frame.pc = "finally"
    /\ recalculating_backtimes' = FALSE
    /\ frame' = [frame EXCEPT !.pc = "idle", !.running = @ - 1]
    /\ UNCHANGED <<rundown_tree, rundown_clock_label>>
    /\ StepFrame

StepNext ==
    \/ calc_guard
    \/ calc_first_pass
    \/ calc_show_end
    \/ calc_setText
    \/ handle_rundown_item_changed_3
    \/ calc_setLabel
    \/ calc_finally

StepSpec == StepInit /\ [][StepNext]_vars

-----------------------------------------------------------------------------
(* The countdown of a rundown that is left alone *)

\* what a handler's recompute at the time t left of the rows of StartTrees
ScheduledAt(t) ==
    { calculate_backtimes(tree, DashesLabel, FALSE, t) : tree \in StartTrees }

\* the seconds that have passed since the recompute
Elapsed == {0} \cup TickSteps

\* A rundown was scheduled when the program was started, and the clock has
\* gone on since.
ClockInit ==
    /\ \E t \in StartTimes, e \in Elapsed :
          \E c \in ScheduledAt(t) :
             /\ rundown_tree = c.tree
             /\ rundown_clock_label = c.label
             /\ now = t + e
    /\ current_item = 0
    /\ recalculating_backtimes = FALSE
    /\ ops = 0
    /\ last = NoOp
    /\ PureIdle
    /\ frame = NoFrame
    /\ pull = NoPull
    /\ rundown_file = NoFile

\* the timer fires every second; between two ticks the clock goes on
ClockNext ==
    \/ \E d \in TickSteps : Tick(d)
    \/ update_backtime_clock

ClockSpec == ClockInit /\ [][ClockNext]_vars

-----------------------------------------------------------------------------
(* Calls of the time utilities and of the categorization on their own *)

\* Tokens a duration text is made of: the text of the token, whether it is
\* an integer, and its value if it is.
Tok(text, isInt, val) == [text |-> text, int |-> isInt, val |-> val]

DurationTokens ==
    { Tok(<<"2">>, TRUE, 2), Tok(<<"3", "0">>, TRUE, 30),
      Tok(<<"0", "2">>, TRUE, 2), Tok(<<"0", "3">>, TRUE, 3),
      Tok(<<"1">>, TRUE, 1), Tok(<<"9", "9">>, TRUE, 99),
      Tok(<<"-", "1">>, TRUE, -1), Tok(<<"a", "b">>, FALSE, 0),
      Tok(<<>>, FALSE, 0) }

\* longest duration text, in tokens
MaxTokens == 3

DurationInputs == UNION {[1..n -> DurationTokens] : n \in 1..MaxTokens}

\* ":".join(texts of the tokens)
RECURSIVE Join(_)
Join(toks) ==
    IF Len(toks) = 1 THEN toks[1].text
    ELSE toks[1].text \o <<":">> \o Join(Tail(toks))

\* Clock texts, with what they are: blank, no clock time, or the time of
\* day (in seconds) they denote.
Clock(text, kind, tod) == [text |-> text, kind |-> kind, tod |-> tod]

ClockInputs ==
    { Clock(<<>>, "blank", 0), Clock(t_blank, "blank", 0),
      Clock(t_notatime, "malformed", 0),
      Clock(<<"2", "5", ":", "0", "0">>, "malformed", 0),
      Clock(<<"1", "3", ":", "0", "0", " ", "P", "M">>, "malformed", 0),
      Clock(<<"0", "0", ":", "0", "0", " ", "A", "M">>, "malformed", 0),
      Clock(<<"6", ":", "6", "0", " ", "P", "M">>, "malformed", 0),
      Clock(t_6pm_s, "time", 18 * 3600),
      Clock(<<"1", "2", ":", "1", "4", " ", "A", "M">>, "time", 14 * 60),
      Clock(<<"1", "2", ":", "0", "5", " ", "p", "m">>, "time", 12 * 3600 + 300),
      Clock(<<" ", "6", ":", "0", "0", " ", " ", "P", "M", " ">>, "time", 18 * 3600),
      Clock(t_1800, "time", 18 * 3600),
      Clock(<<"2", "3", ":", "5", "9", ":", "3", "0">>, "time",
            23 * 3600 + 59 * 60 + 30),
      Clock(<<"0", ":", "0", "0">>, "time", 0) }

fn_bbc ==
    <<"B", "B", "C", " ", "N", "e", "w", "s", " ", "-", " ", "W", "o", "r",
      "l", "d">>

fn_reuters ==
    <<"R", "e", "u", "t", "e", "r", "s", " ", "-", " ", "T", "o", "p", " ",
      "N", "e", "w", "s">>

fn_nyt ==
    <<"T", "h", "e", " ", "N", "e", "w", " ", "Y", "o", "r", "k", " ", "T",
      "i", "m", "e", "s", " ", "-", " ", "T", "e", "c", "h", "n", "o", "l",
      "o", "g", "y">>

fn_cnn ==
    <<"C", "N", "N", " ", "-", " ", "P", "o", "l", "i", "t", "i", "c", "s">>

fn_espn ==
    <<"E", "S", "P", "N", " ", "-", " ", "T", "o", "p">>

fn_gazette ==
    <<"L", "o", "c", "a", "l", " ", "G", "a", "z", "e", "t", "t", "e">>

fn_sky ==
    <<"S", "k", "y", " ", "S", "P", "O", "R", "T", "S", " ", "I", "n", "t",
      "e", "r", "n", "a", "t", "i", "o", "n", "a", "l">>

fn_ibt ==
    <<"I", "n", "t", "e", "r", "n", "a", "t", "i", "o", "n", "a", "l", " ",
      "B", "u", "s", "i", "n", "e", "s", "s", " ", "T", "i", "m", "e", "s">>

fn_variety ==
    <<"V", "a", "r", "i", "e", "t", "y", " ", "E", "n", "t", "e", "r", "t",
      "a", "i", "n", "m", "e", "n", "t">>

fn_techbiz ==
    <<"B", "u", "s", "i", "n", "e", "s", "s", " ", "o", "f", " ", "T", "e",
      "c", "h", "n", "o", "l", "o", "g", "y">>

\* Feed names, with the keywords each was written to contain
Feed(text, keys) == [text |-> text, keys |-> keys]

FeedInputs ==
    { Feed(fn_bbc, {"world"}), Feed(fn_reuters, {}),
      Feed(fn_nyt, {"technology"}), Feed(fn_cnn, {"politics"}),
      Feed(fn_espn, {}), Feed(fn_gazette, {}),
      Feed(fn_sky, {"sports", "international"}),
      Feed(fn_ibt, {"international", "business"}),
      Feed(fn_variety, {"entertainment"}),
      Feed(fn_techbiz, {"business", "technology"}) }

Category(name) == [tag |-> "category", v |-> name]

Call(f, a, r) ==
    /\ fn = "none"
    /\ fn' = f
    /\ arg' = a
    /\ res' = r
    /\ UNCHANGED <<appVars, stepVars, pullVars, fileVars>>

call_parse_duration_string(toks) ==
    Call("parse_duration_string", [text |-> Join(toks), toks |-> toks],
         parse_duration_string(Join(toks)))

call_parse_backtime_string(c) ==
    Call("parse_backtime_string", c, parse_backtime_string(c.text))

call_categorize(f) == Call("categorize", f, Category(categorize(f.text)))

c_Weather == <<"W", "e", "a", "t", "h", "e", "r">>
c_Arts == <<"A", "r", "t", "s">>
c_local == <<"l", "o", "c", "a", "l">>

\* The names the keys of a result are drawn from: the keys of
\* category_order and three names that are not among them.
CategoryNames ==
    { c_All, c_Technology, c_Sports, c_Politics, c_WorldNews, c_Business,
      c_Entertainment, c_Other, c_Weather, c_Arts, c_local }

\* most categories in one result
MaxCategories == 3

\* the keys of a dict: no name twice, in any order
CategoryInputs ==
    { keys \in UNION {[1..n -> CategoryNames] : n \in 1..MaxCategories} :
        \A i, j \in 1..Len(keys) : i # j => keys[i] # keys[j] }

List(l) == [tag |-> "list", v |-> l]

call_sorted_categories(keys) ==
    Call("sorted_categories", keys, List(sorted_categories(keys)))

Return ==
    /\ fn # "none"
    /\ fn' = "none"
    /\ arg' = <<>>
    /\ res' = None
    /\ UNCHANGED <<appVars, stepVars, pullVars, fileVars>>

PureNext ==
    \/ \E toks \in DurationInputs : call_parse_duration_string(toks)
    \/ \E c \in ClockInputs : call_parse_backtime_string(c)
    \/ \E f \in FeedInputs : call_categorize(f)
    \/ \E keys \in CategoryInputs : call_sorted_categories(keys)
    \/ Return

PureSpec == Init /\ [][PureNext]_vars

-----------------------------------------------------------------------------
(* The pull of the stories, pull_stories and PullStoriesWorker.run *)

\* most feeds in the list, most entries in a feed, highest story limit
MaxFeeds == 2
MaxEntries == 2
MaxStoryLimit == 2

\* the names of the feeds of a pull: three of DEFAULT_FEEDS
PullFeeds == {fn_nyt, fn_cnn, fn_espn}

\* get_current_feeds(): the rows of the feed list, none to MaxFeeds of them
FeedLists == UNION {[1..n -> PullFeeds] : n \in 0..MaxFeeds}

\* story_limit_slider.value(): the slider's minimum is 1
StoryLimits == 1..MaxStoryLimit

Log(kind, k) == [kind |-> kind, feed |-> k]

\* what the server answered for a feed, and the entries of the parsed feed
Answer(kind, n) == [answer |-> kind, entries |-> n]

\* a story of all_stories: the feed it is from and the index of its entry
PulledStory(k, i) == [source |-> k, entry |-> i]

\* PullStoriesWorker.__init__: after the four assignments it calls
\* self.load_settings(), which the class and QRunnable do not define.
PullStoriesWorker_init(feeds, story_limit) ==
    [outcome |-> "AttributeError", feeds |-> feeds, story_limit |-> story_limit]

\* self.signals.get_local_timezone.emit(): the signal is declared Signal(str)
\* and emitted with no argument.
get_local_timezone_emit == [tag |-> "TypeError", v |-> 0]

PullFrame == UNCHANGED <<appVars, pureVars, stepVars, fileVars>>

\* The button "Pull Stories" is clicked.  With no feed the handler logs and
\* returns.  Otherwise it disables the button and constructs the worker; the
\* error of the constructor ends the handler there, before the worker is
\* connected and handed to the thread pool.
pull_stories ==
    /\ pull.pc = "idle"
    /\ pull.button = "Pull Stories"
    /\ IF pull.feeds = <<>>
       THEN pull' = [pull EXCEPT
                        !.log = <<Log("Starting", 0), Log("No feeds", 0)>>]
       ELSE IF PullStoriesWorker_init(pull.feeds, pull.story_limit).outcome
                  = "AttributeError"
       THEN pull' = [pull EXCEPT
                        !.log = <<Log("Starting", 0)>>,
                        !.button = "Pulling...",
                        !.emitted = <<>>]
       ELSE pull' = [pull EXCEPT
                        !.log = <<Log("Starting", 0)>>,
                        !.button = "Pulling...",
                        !.emitted = <<>>,
                        !.pc = "for", !.k = 0, !.i = 0, !.n = 0,
                        !.all_stories = [c \in Categories |-> <<>>],
                        !.got = <<>>, !.started = {}, !.ended = {}]
    /\ PullFrame

\* a variant of the next statement that sends the requests of all the feeds
\* at once
run_fetch_allAtOnce ==
    /\ pull.pc = "for"
    /\ pull.k < Len(pull.feeds)
    /\ pull' = [pull EXCEPT
                   !.k = pull.k + 1,
                   !.log = Append(pull.log, Log("Fetching", pull.k + 1)),
                   !.started = 1..Len(pull.feeds),
                   !.pc = "get"]
    /\ PullFrame

\* for feed_info in self.feeds: the next feed is taken, "Fetching" is logged
\* and requests.get sends the request
run_fetch ==
    /\ pull.pc = "for"
    /\ pull.k < Len(pull.feeds)
    /\ pull' = [pull EXCEPT
                   !.k = pull.k + 1,
                   !.log = Append(pull.log, Log("Fetching", pull.k + 1)),
                   !.started = pull.started \cup {pull.k + 1},
                   !.pc = "get"]
    /\ PullFrame

\* the handling of feed k is over: the loop goes on
EndOfFeed(p, answer, logged) ==
    [p EXCEPT !.got = Append(p.got, answer),
              !.log = Append(p.log, logged),
              !.ended = p.ended \cup {p.k},
              !.pc = "for"]

\* requests.get times out or cannot connect, or raise_for_status finds a
\* 4xx or 5xx status: except requests.exceptions.RequestException
run_request_failed(kind) ==
    /\ pull.pc = "get"
    /\ pull' = EndOfFeed(pull, Answer(kind, 0), Log("Error fetching", pull.k))
    /\ PullFrame

\* feedparser sets feed.bozo: a warning is logged and the feed is left
run_bozo ==
    /\ pull.pc = "get"
    /\ pull' = EndOfFeed(pull, Answer("bozo", 0), Log("Warning", pull.k))
    /\ PullFrame

\* the feed is parsed with n entries: the loop over the entries begins
run_parsed(n) ==
    /\ pull.pc = "get"
    /\ pull' = [pull EXCEPT !.got = Append(pull.got, Answer("ok", n)),
                            !.n = n, !.i = 0, !.pc = "entries"]
    /\ PullFrame

\* the body of the loop for entry i below the limit: the time zone is asked
\* for before the story is appended; its error leaves the try block for
\* `except Exception`, which logs and ends the handling of the feed.
run_entry ==
    /\ pull.pc = "entries"
    /\ pull.i < pull.n
    /\ pull.i < pull.story_limit
    /\ IF get_local_timezone_emit.tag = "TypeError"
       THEN pull' = [pull EXCEPT
                        !.log = Append(pull.log, Log("Unexpected error", pull.k)),
                        !.ended = pull.ended \cup {pull.k},
                        !.pc = "for"]
       ELSE pull' = [pull EXCEPT
                        !.all_stories[categorize(pull.feeds[pull.k])] =
                            Append(@, PulledStory(pull.k, pull.i)),
                        !.i = pull.i + 1]
    /\ PullFrame

\* the entries are exhausted, or i >= story_limit breaks the loop:
\* "Finished fetching" is logged
run_finished ==
    /\ pull.pc = "entries"
    /\ ~(pull.i < pull.n /\ pull.i < pull.story_limit)
    /\ pull' = [pull EXCEPT
                   !.log = Append(pull.log, Log("Finished", pull.k)),
                   !.ended = pull.ended \cup {pull.k},
                   !.pc = "for"]
    /\ PullFrame

\* after the loop over the feeds: stories_ready.emit(all_stories)
run_emit ==
    /\ pull.pc = "for"
    /\ pull.k = Len(pull.feeds)
    /\ pull' = [pull EXCEPT !.emitted = Append(pull.emitted, pull.all_stories),
                            !.pc = "emitted"]
    /\ PullFrame

\* the seven names of Categories in the order of category_order
DisplayOrder ==
    <<"Technology", "Sports", "Politics", "World News", "Business",
      "Entertainment", "Other">>

RECURSIVE CategoryItems(_, _)
CategoryItems(all_stories, order) ==
    IF order = <<>> THEN <<>>
    ELSE IF all_stories[Head(order)] = <<>>
    THEN CategoryItems(all_stories, Tail(order))
    ELSE <<[category |-> Head(order), stories |-> all_stories[Head(order)]]>>
             \o CategoryItems(all_stories, Tail(order))

\* the slot of stories_ready: the articles tree shows the categories that
\* have stories, and the button is enabled again
display_stories ==
    /\ pull.pc = "emitted"
    /\ pull' = [pull EXCEPT
                   !.shown = CategoryItems(pull.emitted[Len(pull.emitted)],
                                           DisplayOrder),
                   !.log = Append(pull.log, Log("Stories pulled", 0)),
                   !.button = "Pull Stories",
                   !.pc = "idle"]
    /\ PullFrame

\* The application waits for the click on "Pull Stories", or the thread pool
\* is about to call run() of a worker that holds the feeds and the limit.
PullInit ==
    /\ rundown_tree = <<>>
    /\ current_item = 0
    /\ rundown_clock_label = DashesLabel
    /\ recalculating_backtimes = FALSE
    /\ now \in StartTimes
    /\ ops = 0
    /\ last = NoOp
    /\ PureIdle
    /\ frame = NoFrame
    /\ rundown_file = NoFile
    /\ \E feeds \in FeedLists, story_limit \in StoryLimits :
          \/ pull = [NoPull EXCEPT !.feeds = feeds,
                                   !.story_limit = story_limit]
          \/ /\ feeds # <<>>
             /\ pull = [NoPull EXCEPT !.feeds = feeds,
                                      !.story_limit = story_limit,
                                      !.button = "Pulling...",
                                      !.log = <<Log("Starting", 0)>>,
                                      !.pc = "for"]

PullNext ==
    \/ pull_stories
    \/ run_fetch
    \/ \E kind \in {"timeout", "http_error"} : run_request_failed(kind)
    \/ run_bozo
    \/ \E n \in 0..MaxEntries : run_parsed(n)
    \/ run_entry
    \/ run_finished
    \/ run_emit
    \/ display_stories

PullSpec == PullInit /\ [][PullNext]_vars

\* the worker's thread and the event loop keep running
FairPullSpec == PullSpec /\ WF_vars(PullNext)

-----------------------------------------------------------------------------
(* Properties of the rundown, checked under Spec *)

\* the five columns a row shows
Cols(item) ==
    [ title |-> item.title, duration |-> item.duration,
      backtime |-> item.backtime, profile |-> item.profile,
      active |-> item.active ]

Visible(tree) == [i \in 1..Len(tree) |-> Cols(tree[i])]

\* the seconds a row takes in the schedule: its duration when its record is
\* active and the duration is one, 0 otherwise
Contribution(item) ==
    IF item.data.active /\ parse_duration_string(item.duration).tag = "int"
    THEN parse_duration_string(item.duration).v
    ELSE 0

\* the seconds of rows i .. last
RECURSIVE SumFrom(_, _)
SumFrom(tree, i) ==
    IF i > Len(tree) THEN 0 ELSE Contribution(tree[i]) + SumFrom(tree, i + 1)

\* the time of day of the instant t, as parse_backtime_string gives it
TimeOfDay(t) == [tag |-> "time", v |-> t % Day]

\* the time of day a row's backtime text denotes
StartOf(item) == parse_backtime_string(item.backtime).v

Recompute(tree, label) == calculate_backtimes(tree, label, FALSE, now)

\* C1: with the clock held fixed, a second calculate_backtimes right after a
\* first one leaves every row's backtime and the headline as the first one
\* left them.
C1_Idempotent ==
    Recompute(rundown_tree, rundown_clock_label).outcome = "done" =>
        Recompute(Recompute(rundown_tree, rundown_clock_label).tree,
                  Recompute(rundown_tree, rundown_clock_label).label)
            = Recompute(rundown_tree, rundown_clock_label)

t_0559pm == <<"0", "5", ":", "5", "9", " ", "P", "M">>
t_0558pm == <<"0", "5", ":", "5", "8", " ", "P", "M">>
t_0557pm == <<"0", "5", ":", "5", "7", " ", "P", "M">>
t_055745pm == <<"0", "5", ":", "5", "7", ":", "4", "5", " ", "P", "M">>

\* C2 as stated: after a recompute with show end A, each row's backtime is
\* the instant A minus the durations of the active rows from it to the last
\* one, seconds included, and the headline reads the first row's backtime.
C2_BacktimeIsTheInstant ==
    last.calc = "done" =>
        /\ \A i \in Rows :
              parse_backtime_string(rundown_tree[i].backtime)
                  = TimeOfDay(last.anchor - SumFrom(rundown_tree, i))
        /\ Rows # {} => rundown_clock_label.text = rundown_tree[1].backtime

\* the rundown of three active segments 00:30, 01:00, 00:45 that ends at
\* 6:00:00 PM has just been loaded and scheduled
ExampleScheduled == last.op = "load" /\ last.idx = 1 /\ last.calc = "done"

\* C2: after a recompute with show end A, each row's backtime is the text
\* "hh:mm AM/PM" (zero-padded hour, seconds dropped) of A minus the durations
\* of the active rows from it to the last one, and the headline is the text
\* "hh:mm:ss AM/PM" of A minus all of them.  For 00:30, 01:00, 00:45 and
\* 6:00:00 PM: "05:57 PM", "05:58 PM", "05:59 PM", headline "05:57:45 PM".
C2_BackwardWalk ==
    /\ last.calc = "done" =>
          /\ \A i \in Rows :
                rundown_tree[i].backtime
                    = strftime_IMp(last.anchor - SumFrom(rundown_tree, i))
          /\ rundown_clock_label
                 = BacktimeLabel(last.anchor - SumFrom(rundown_tree, 1))
    /\ ExampleScheduled =>
          /\ last.anchor % Day = 18 * 3600
          /\ rundown_tree[3].backtime = t_0559pm
          /\ rundown_tree[2].backtime = t_0558pm
          /\ rundown_tree[1].backtime = t_0557pm
          /\ rundown_clock_label.text = t_055745pm

C2_ExampleReached ==
    /\ ExampleScheduled
    /\ rundown_tree[3].backtime = t_0559pm
    /\ rundown_clock_label.text = t_055745pm

\* every story of the selection has the link or the id of a record of tree
AllDuplicates(selection, tree) ==
    \A k \in selection : \E j \in 1..Len(tree) :
        \/ tree[j].data.link = Articles[k].link
        \/ tree[j].data.id = Articles[k].id

C4_UniqueSegments ==
    \A i, j \in Rows :
        i # j => /\ rundown_tree[i].data.id # rundown_tree[j].data.id
                 /\ rundown_tree[i].data.link # rundown_tree[j].data.link

MoveOutOfBounds ==
    /\ last.op = "move"
    /\ (last.idx + last.dir < 1 \/ last.idx + last.dir > Len(last.pre.tree))

MoveInBounds ==
    /\ last.op = "move"
    /\ 1 <= last.idx + last.dir
    /\ last.idx + last.dir <= Len(last.pre.tree)

\* C5: a move of the first row up or of the last row down changes nothing:
\* the rows, every column and record of them and the headline are as
\* before, and no recompute is run.
C5_OutOfBoundsMoveIsNoOp ==
    MoveOutOfBounds =>
        /\ rundown_tree = last.pre.tree
        /\ rundown_clock_label = last.pre.label
        /\ last.calc = "none"

C5_FirstRowMovedUp ==
    /\ MoveOutOfBounds
    /\ last.idx = 1
    /\ last.dir = -1
    /\ Len(rundown_tree) >= 2
    /\ rundown_tree[1].backtime # <<>>

\* the row that is at i after rows a and b have changed places
Swapped(i, a, b) == IF i = a THEN b ELSE IF i = b THEN a ELSE i

RowBefore(i) == last.pre.tree[Swapped(i, last.idx, last.idx + last.dir)]

C7_DeactivateKeepsLaterBacktimes ==
    (/\ last.op = "active"
     /\ last.calc = "done"
     /\ ~rundown_tree[last.idx].active) =>
        /\ Len(rundown_tree) = Len(last.pre.tree)
        /\ \A i \in Rows : rundown_tree[i].data.id = last.pre.tree[i].data.id
        /\ \A i \in Rows :
              i > last.idx =>
                  rundown_tree[i].backtime = last.pre.tree[i].backtime
        /\ \A i \in Rows :
              i < Len(rundown_tree) =>
                  (StartOf(rundown_tree[i + 1]) - StartOf(rundown_tree[i]))
                      % Day
                  = (IF i = last.idx THEN 0
                     ELSE Contribution(rundown_tree[i])) % Day

\* an active row whose duration text is no duration
Unparseable(item) ==
    item.data.active /\ parse_duration_string(item.duration).tag # "int"

\* C14: a recompute on a rundown with an active row whose duration does not
\* parse runs to its end all the same: every row gets its backtime, the
\* row counts 0 seconds, and a warning is logged for it.
C14_UnparseableNotFatal ==
    (/\ last.calc \in {"done", "raised"}
     /\ \E i \in Rows : Unparseable(rundown_tree[i])) =>
        /\ last.calc = "done"
        /\ \A i \in Rows : Unparseable(rundown_tree[i]) => i \in last.warn_dur
        /\ \A i \in Rows :
              rundown_tree[i].backtime
                  = strftime_IMp(last.anchor - SumFrom(rundown_tree, i))

\* C15: a recompute on a rundown without rows leaves the headline at
\* "Backtime: --:--:--", which is no clock time.
C15_EmptyShowsNoSchedule ==
    (last.calc = "done" /\ Len(rundown_tree) = 0) =>
        rundown_clock_label = DashesLabel

\* C20: a tick of update_backtime_clock leaves the rundown as it was: the same
\* rows in the same order, each with the same columns, the same backtime and
\* the same stored data; the selected row and the flag of the recompute are
\* untouched as well.  Only the headline label may change.
C20_ClockIsReadOnly ==
    last.op = "clock" =>
        /\ rundown_tree = last.pre.tree
        /\ ~recalculating_backtimes

\* a tick on a rundown whose first backtime parses: the label turns into a
\* countdown and the rows stay
C20_CountdownShown ==
    /\ last.op = "clock"
    /\ Len(rundown_tree) > 0
    /\ parse_backtime_string(rundown_tree[1].backtime) # None
    /\ rundown_clock_label.kind = "Show Starts In"
    /\ rundown_clock_label # last.pre.label

\* C28: a send to a rundown of L segments gives the k-th segment it inserts
\* (k from 0, rejected stories not counted) the order L + k, its position in
\* the rundown.
C28_OrderIsPosition ==
    (last.op = "send" /\ last.added > 0) =>
        \A k \in 0..(last.added - 1) :
            rundown_tree[Len(last.pre.tree) + k + 1].data.order
                = Len(last.pre.tree) + k

\* the instant at which row i starts, in a schedule that ends at `anchor`
StartInstant(tree, anchor, i) == anchor - SumFrom(tree, i)

\* every row's duration text is one parse_duration_string gives seconds for
DurationsAccepted(tree) ==
    \A i \in 1..Len(tree) : parse_duration_string(tree[i].duration).tag = "int"

\* C29: after a recompute of a rundown whose duration texts the parser
\* accepts, the backtimes are the texts of start instants that never
\* decrease from a row to the next, the last of them not after the show end.
C29_StartsNeverDecrease ==
    (last.calc = "done" /\ DurationsAccepted(rundown_tree)) =>
        /\ \A i \in Rows :
              rundown_tree[i].backtime
                  = strftime_IMp(StartInstant(rundown_tree, last.anchor, i))
        /\ \A i \in Rows :
              StartInstant(rundown_tree, last.anchor, i)
                  <= StartInstant(rundown_tree, last.anchor, i + 1)

\* C30: the profile in a row's record is the profile the row shows, whatever
\* profile changes were made, so that get_rundown_items, which copies the
\* row's text into the record, returns the profile chosen last.
C30_RecordShowsProfile ==
    \A i \in Rows :
        /\ rundown_tree[i].data.profile = rundown_tree[i].profile
        /\ get_rundown_items(rundown_tree)[i].profile
               = rundown_tree[i].data.profile

\* the handlers whose one recompute was given rows that `last` tells
AnchorOps == {"new", "load", "delete", "move", "tab", "active", "duration"}

\* the rows the recompute of the last handler was given, as far as their
\* backtimes go (an edit of a duration or of a check box leaves the texts
\* of the backtimes as they were)
RowsSeen ==
    IF last.op = "new" THEN <<>>
    ELSE IF last.op = "load" THEN update_rundown_tree(ExternalFiles[last.idx])
    ELSE IF last.op = "delete" THEN RemoveAt(last.pre.tree, last.idx)
    ELSE IF last.op = "move"
    THEN MovedRows(last.pre.tree, last.idx, last.idx + last.dir)
    ELSE last.pre.tree

\* the text of the last row's backtime the recompute read, "" with no row
LastBacktimeSeen ==
    IF Len(RowsSeen) = 0 THEN <<>> ELSE RowsSeen[Len(RowsSeen)].backtime

\* the end of the last row: its start, and its seconds when it is active
EndOfLast(tree) ==
    (StartOf(tree[Len(tree)]) + Contribution(tree[Len(tree)])) % Day

\* C22: with the clock held and no backtime edited by hand, an append, a
\* move, a deletion, an edit of a duration or a click on a check box leaves
\* the end of the last segment of a scheduled rundown at the time of day at
\* which the schedule ended before.
C22_ShowEndFixed ==
    (/\ last.op \in {"send", "move", "delete", "duration", "active"}
     /\ last.calc = "done"
     /\ Len(rundown_tree) > 0
     /\ Len(last.pre.tree) > 0
     /\ last.pre.label.kind = "Backtime"
     /\ parse_backtime_string(last_item_backtime_str(last.pre.tree)).tag
            = "time") =>
        EndOfLast(rundown_tree) = EndOfLast(last.pre.tree)

\* C23: when the last row's backtime is a time of day, the show end is that
\* time on the date of the clock, and one day later if and only if that
\* instant lies more than 3600 seconds before the clock.
C23_AnchorRollForward ==
    (/\ last.op \in AnchorOps
     /\ last.calc = "done"
     /\ parse_backtime_string(LastBacktimeSeen).tag = "time") =>
        LET instant == (now - (now % Day))
                           + parse_backtime_string(LastBacktimeSeen).v
        IN  last.anchor = IF now - instant > 3600 THEN instant + Day
                          ELSE instant

\* a show end that lies less than an hour before the clock is used as it is
C23_RecentPastKept ==
    /\ last.op \in AnchorOps
    /\ last.calc = "done"
    /\ parse_backtime_string(LastBacktimeSeen).tag = "time"
    /\ last.anchor < now
    /\ now - last.anchor <= 3600

FieldEdits ==
    {"title", "character", "set_item_profile", "on_character_changed",
     "set_item_rewrite_option"}

\* the row r is the row p up to the attribute the handler op edits
SameButEdited(op, r, p) ==
    IF op = "title"
    THEN [r EXCEPT !.title = p.title, !.data.title = p.data.title] = p
    ELSE IF op \in {"character", "set_item_profile", "on_character_changed"}
    THEN [r EXCEPT !.profile = p.profile, !.data.profile = p.data.profile] = p
    ELSE \E a \in {"style", "tone", "length"} :
            [r EXCEPT !.data[a] = p.data[a]] = p

\* C27: an edit of a segment's title, profile, style, tone or length runs no
\* recompute and leaves the headline, the number and the order of the rows,
\* every other row and every other attribute of the edited row, its
\* backtime included, as they were; of the edits of one row only those of
\* the duration and of the check box run a recompute.
C27_OneAttributeOnly ==
    /\ last.op \in FieldEdits =>
          /\ last.calc = "none"
          /\ rundown_clock_label = last.pre.label
          /\ Len(rundown_tree) = Len(last.pre.tree)
          /\ \A j \in Rows :
                IF j = last.idx
                THEN SameButEdited(last.op, rundown_tree[j], last.pre.tree[j])
                ELSE rundown_tree[j] = last.pre.tree[j]
    /\ last.op \in FieldEdits \cup {"backtime", "duration", "active"} =>
          (last.calc # "none" <=> last.op \in {"duration", "active"})

\* the tone of the second of two rows was set to "Humorous"
C27_ToneChosen ==
    /\ last.op = "set_item_rewrite_option"
    /\ Len(rundown_tree) >= 2
    /\ last.idx = 2
    /\ rundown_tree[2].data.tone = "Humorous"
    /\ last.pre.tree[2].data.tone = "Objective"
    /\ rundown_tree[2].backtime = last.pre.tree[2].backtime

-----------------------------------------------------------------------------
(* Properties of the pure functions, checked under PureSpec *)

AllInts(toks) == \A k \in 1..Len(toks) : toks[k].int

InMinute(n) == 0 <= n /\ n < 60

\* the duration a sequence of tokens denotes: M:S or H:M:S with integer
\* tokens, no negative one, and M (of three) and S below 60
ParseDuration(toks) ==
    IF /\ Len(toks) = 2 /\ AllInts(toks)
       /\ toks[1].val >= 0 /\ InMinute(toks[2].val)
    THEN Seconds(toks[1].val * 60 + toks[2].val)
    ELSE IF /\ Len(toks) = 3 /\ AllInts(toks)
            /\ toks[1].val >= 0 /\ InMinute(toks[2].val)
            /\ InMinute(toks[3].val)
    THEN Seconds(toks[1].val * 3600 + toks[2].val * 60 + toks[3].val)
    ELSE None

\* C8: parse_duration_string gives the seconds of M:S and of H:M:S, and
\* None, as a returned value, for any other number of tokens, any token
\* that is no integer and any part out of range; it never raises and never
\* returns a negative number.
C8_AgreesWithReference ==
    fn = "parse_duration_string" =>
        /\ res = ParseDuration(arg.toks)
        /\ res.tag # "ValueError"
        /\ res.tag = "int" => res.v >= 0

\* what parse_backtime_string gives for ""
Absent == parse_backtime_string(t_empty)

\* C9 as stated: an empty or blank text gives the "absent" outcome, a text
\* that matches no clock format gives another outcome, which is no time.
C9_AbsentAndInvalidDiffer ==
    fn = "parse_backtime_string" =>
        /\ arg.kind = "blank" => res = Absent
        /\ arg.kind = "malformed" => res # Absent /\ res.tag # "time"

\* C9: parse_backtime_string returns None both for an empty or blank text
\* and for a text that matches no clock format, and the time of day for a
\* text that matches one; calculate_backtimes, which calls it, tells the
\* two apart by the text alone: it logs an invalid backtime for any
\* non-empty text that gave None, a blank one included, and nothing for "".
C9_NoneForAbsentAndInvalid ==
    fn = "parse_backtime_string" =>
        /\ arg.kind \in {"blank", "malformed"} => res = None
        /\ arg.kind = "time" => res = TimeOfDay(arg.tod)
        /\ InvalidBacktimeLogged(arg.text, res)
               <=> (arg.text # <<>> /\ arg.kind # "time")

C9_OutOfRangeHourIsNone ==
    /\ fn = "parse_backtime_string"
    /\ arg.text = <<"2", "5", ":", "0", "0">>
    /\ res = None

\* C10 as stated: "ESPN - Top" is "Sports", "BBC News - World" is "World
\* News", and a name with none of the keywords is "Other".
C10_DocumentedFeeds ==
    fn = "categorize" =>
        /\ arg.text = fn_espn => res = Category("Sports")
        /\ arg.text = fn_bbc => res = Category("World News")
        /\ arg.keys = {} => res = Category("Other")

\* C10: "BBC News - World" is "World News"; "ESPN - Top", which has none of
\* the keywords in it, is "Other", as is every name with none of them, and
\* no name with one of them is.
C10_KeywordsDecide ==
    fn = "categorize" =>
        /\ arg.text = fn_bbc => res = Category("World News")
        /\ arg.text = fn_espn => res = Category("Other")
        /\ arg.keys = {} <=> res = Category("Other")

C10_EspnIsOther ==
    /\ fn = "categorize"
    /\ arg.text = fn_espn
    /\ res = Category("Other")

\* the keywords in the order in which run looks for them, and the category
\* each one gives
KeywordOrder ==
    <<"technology", "sports", "politics", "world", "international",
      "business", "entertainment">>

KeywordCategory ==
    [k \in {KeywordOrder[i] : i \in 1..Len(KeywordOrder)} |->
        IF k = "technology" THEN "Technology"
        ELSE IF k = "sports" THEN "Sports"
        ELSE IF k = "politics" THEN "Politics"
        ELSE IF k \in {"world", "international"} THEN "World News"
        ELSE IF k = "business" THEN "Business"
        ELSE "Entertainment"]

\* the place in KeywordOrder of the first keyword that is among keys
FirstKeyword(keys) ==
    CHOOSE i \in 1..Len(KeywordOrder) :
        /\ KeywordOrder[i] \in keys
        /\ \A j \in 1..(i - 1) : KeywordOrder[j] \notin keys

\* C25: the category of a feed name is that of the first of the keywords
\* technology, sports, politics, world or international, business,
\* entertainment that occurs in the name, in whatever case and at whatever
\* place it is written, and "Other" when none occurs.
C25_FirstKeywordWins ==
    fn = "categorize" =>
        res = Category(IF arg.keys = {} THEN "Other"
                       ELSE KeywordCategory[KeywordOrder[FirstKeyword(arg.keys)]])

\* "Business of Technology" has "business" before "technology" in the name
\* and is "Technology"
C25_EarlierKeywordWins ==
    /\ fn = "categorize"
    /\ arg.text = fn_techbiz
    /\ arg.keys = {"business", "technology"}
    /\ res = Category("Technology")

\* the names of a list
Names(l) == {l[i] : i \in 1..Len(l)}

\* the place of a name in the order Technology, Sports, Politics, World
\* News, Business, Entertainment, Other; 8 for any other name
ListedRank(x) ==
    IF x = c_Technology THEN 1
    ELSE IF x = c_Sports THEN 2
    ELSE IF x = c_Politics THEN 3
    ELSE IF x = c_WorldNews THEN 4
    ELSE IF x = c_Business THEN 5
    ELSE IF x = c_Entertainment THEN 6
    ELSE IF x = c_Other THEN 7
    ELSE 8

\* the same with All before all of them
ShownRank(x) == IF x = c_All THEN 0 ELSE ListedRank(x)

\* the list l holds the names of keys, each once
SameNames(l, keys) == Len(l) = Len(keys) /\ Names(l) = Names(keys)

-----------------------------------------------------------------------------
(* Properties of one recompute, checked under StepSpec *)

\* what a call of calculate_backtimes made in this state would do
CalledNow ==
    calculate_backtimes(rundown_tree, rundown_clock_label,
                        recalculating_backtimes, now)

\* An execution that has ended left what calculate_backtimes, taken as one
\* step, gives for the rows and the headline it found.
StepwiseAgrees ==
    (frame.pc = "idle" /\ frame.calls > 0) =>
        /\ rundown_tree =
               calculate_backtimes(frame.pre.tree, frame.pre.label,
                                   FALSE, now).tree
        /\ rundown_clock_label =
               calculate_backtimes(frame.pre.tree, frame.pre.label,
                                   FALSE, now).label
        /\ frame.outcome =
               calculate_backtimes(frame.pre.tree, frame.pre.label,
                                   FALSE, now).outcome

\* C12: never are two executions of calculate_backtimes running; while one
\* is running a call of calculate_backtimes returns at the guard, leaves
\* the rows and the headline as they are and is not run later; and the
\* callback that the recompute's own setText fires starts no execution.
C12_NoOverlap ==
    /\ frame.running <= 1
    /\ frame.running = 1 =>
          /\ CalledNow.outcome = "dropped"
          /\ CalledNow.tree = rundown_tree
          /\ CalledNow.label = rundown_clock_label
    /\ frame.pc = "item_changed" => frame.running = 1
    /\ frame.calls <= MaxCalls

C12_CallbackDuringRecompute ==
    /\ frame.pc = "item_changed"
    /\ frame.running = 1
    /\ recalculating_backtimes
    /\ CalledNow.outcome = "dropped"

\* C13: the flag is set exactly while an execution that passed the guard
\* has not ended; when it ends, by the end of the try block or by a
\* ValueError, the flag is False, so the next call passes the guard.
C13_GuardReleased ==
    /\ recalculating_backtimes <=> frame.running = 1
    /\ frame.pc = "idle" <=> frame.running = 0
    /\ frame.pc = "idle" => ~recalculating_backtimes
    /\ frame.outcome # "dropped"

\* a second call has passed the guard after the first one ended by a
\* ValueError
C13_ReleasedAfterError ==
    /\ frame.pc = "idle"
    /\ frame.calls = 2
    /\ frame.outcome = "raised"
    /\ ~recalculating_backtimes

-----------------------------------------------------------------------------
(* Properties of the pull of the stories, checked under PullSpec *)

\* a run of the worker is under way or has just emitted its result
RunAtHand == pull.pc \in {"for", "get", "entries", "emitted"}

Min(a, b) == IF a < b THEN a ELSE b

\* the indices of the entries taken from feed k, in the order of the list
\* of the feed's category
TakenFrom(k) ==
    LET l == SelectSeq(pull.all_stories[categorize(pull.feeds[k])],
                       LAMBDA s : s.source = k)
    IN  [j \in 1..Len(l) |-> l[j].entry]

FirstEntries(n) == [j \in 1..n |-> j - 1]

\* the server's answer was good: the feed was fetched and parsed
Answered(k) == k <= Len(pull.got) /\ pull.got[k].answer = "ok"

\* the number of diagnostic events logged for feed k
Diagnostics(k) ==
    Cardinality({j \in 1..Len(pull.log) :
                    /\ pull.log[j].feed = k
                    /\ pull.log[j].kind
                           \in {"Error fetching", "Warning", "Unexpected error"}})

\* C16: once the handling of a feed that was fetched and parsed is over, the
\* stories taken from it are the first min(N, number of entries) entries of
\* the feed in document order, N being the story limit; no feed ever
\* contributes more than N stories.
C16_PerSourceCap ==
    RunAtHand =>
        /\ \A k \in pull.ended :
              Answered(k) =>
                  TakenFrom(k)
                      = FirstEntries(Min(pull.story_limit, pull.got[k].entries))
        /\ \A k \in 1..Len(pull.feeds) :
              Len(TakenFrom(k)) <= pull.story_limit

C18_ConcurrentFanOut ==
    (pull.pc = "get" /\ Len(pull.feeds) >= 2) =>
        pull.started = 1..Len(pull.feeds)

\* C18: the feeds are fetched one after another in the order of the list:
\* the requests sent are those of the first k feeds, the request of a feed is
\* sent only when the handling of every feed before it is over, and at most
\* one feed is being fetched or handled at a time.
C18_OneFeedAtATime ==
    RunAtHand =>
        /\ pull.started = 1..pull.k
        /\ \A k \in pull.started : \A j \in 1..(k - 1) : j \in pull.ended
        /\ Cardinality(pull.started \ pull.ended) <= 1
        /\ pull.pc \in {"get", "entries"} <=> pull.started \ pull.ended = {pull.k}

\* the request of the second feed is in flight after the first one timed out
C18_SecondAfterTimeout ==
    /\ pull.pc = "get"
    /\ pull.k = 2
    /\ pull.got[1].answer = "timeout"
    /\ pull.started = {1, 2}
    /\ pull.ended = {1}

\* C19: a pull that has started (the button reads "Pulling...") leads to one
\* emission of stories_ready; there is never more than one, and none before
\* the handling of every feed of the list is over.
C19_SingleJoin ==
    /\ [](pull.emitted # <<>> =>
             /\ Len(pull.emitted) = 1
             /\ pull.ended = 1..Len(pull.feeds))
    /\ (pull.button = "Pulling...") ~> (Len(pull.emitted) = 1)

-----------------------------------------------------------------------------
(* Properties of saving and loading, checked under FileSpec *)

\* C21: after Load Rundown of the file Save Rundown wrote, the rundown holds
\* the segments of the file in the file's order, each with every field,
\* backtime and active included, as it was written.
C21_RoundTrip ==
    last.op = "load_saved" =>
        get_rundown_items(rundown_tree) = rundown_file.data

-----------------------------------------------------------------------------
(* Properties of the countdown, checked under ClockSpec *)

\* the first row's backtime is a time of day
FirstStartParses ==
    /\ Len(rundown_tree) > 0
    /\ parse_backtime_string(rundown_tree[1].backtime).tag = "time"

\* C26 as stated: once the countdown of an unchanged rundown reports "Show
\* Over", every later tick reports "Show Over".
C26_ShowOverIsTerminal ==
    [][(/\ rundown_clock_label.kind = "Show Over"
        /\ last'.op = "clock"
        /\ rundown_tree' = rundown_tree)
           => rundown_clock_label'.kind = "Show Over"]_vars

\* C26: a tick on a rundown whose first backtime is a time of day reports,
\* with `instant` that time on the date of the clock: the time left to it
\* while it has not passed, "Show Over" while it has passed by no more than
\* 3600 seconds, and after that the time left to the same time of the next
\* day.
C26_ShowOverForAnHour ==
    (last.op = "clock" /\ FirstStartParses) =>
        LET instant == (now - (now % Day)) + StartOf(rundown_tree[1])
        IN  IF now - instant > 3600
            THEN rundown_clock_label = CountdownLabel(instant + Day - now)
            ELSE IF now > instant
            THEN rundown_clock_label = ShowOverLabel
            ELSE rundown_clock_label = CountdownLabel(instant - now)

\* a tick reports a countdown after the tick before it reported "Show Over"
C26_CountdownAfterShowOver ==
    /\ last.op = "clock"
    /\ FirstStartParses
    /\ rundown_tree = last.pre.tree
    /\ last.pre.label.kind = "Show Over"
    /\ rundown_clock_label.kind = "Show Starts In"

====
